---- MODULE Spec2Model ----
(***************************************************************************)
(* Model of the ingestion orchestrator of horizon (ingest/ingester.go):    *)
(* the System fields coreSequence / historySequence, the operator entry    *)
(* points ReingestAll, ReingestRange, ReingestSingle, ReingestOutdated,    *)
(* the poller (Start, run, runOnce, Close) and updateLedgerState.  The two *)
(* stores, the ticker and the ingestion session are the environment.       *)
(***************************************************************************)
EXTENDS Integers, Sequences, FiniteSets, TLC

\* ------------------------------------------------------------------ bounds
MaxSeq == 5         \* largest ledger sequence number of the source store
PageSize == 3       \* most ledgers one OldestOutdatedLedgers query returns
MaxQueries == 2     \* most outdated-ledger queries followed in one sweep

\* --------------------------------------------------------------- constants
Nil == "nil"                      \* the nil error
ErrVals == {"errA", "errB"}       \* distinct non-nil error values
Pollers == {"poller", "poller2"}  \* goroutines that Start can launch
Procs == {"operator"} \cup Pollers \* the execution contexts

VARIABLES
    coreSequence,     \* System.coreSequence
    historySequence,  \* System.historySequence
    coreLatest,       \* latest ledger of the source (core) store
    histLatest,       \* latest ledger of the history store
    outdated,         \* ledgers of the history store below CurrentVersion
    tickC,            \* number of ticks buffered in i.tick.C (0 or 1)
    stopped,          \* i.tick.Stop() has been called
    pc,               \* position of each execution context
    is,               \* the session each context has constructed
    op,               \* the operator call in progress: name and arguments
    rr,               \* arguments of the ReingestRange call in progress
    n,                \* ReingestOutdated: named result n
    page,             \* ReingestOutdated: outdated, the page being batched
    idx,              \* ReingestOutdated: index of the element being looked at
    flushAt,          \* ReingestOutdated: which flush() call is running
    ret,              \* what the operator call returned
    \* history variables (observations, never read by the program)
    pre,              \* the System fields when the operator call started
    calls,            \* sessions run by the operator since the last query
    qcount,           \* outdated-ledger queries issued by this sweep
    allSum,           \* sum of the counts of every session of this call
    okSum,            \* sum of the counts of the sessions that succeeded
    lastEvent,        \* last external event of each context's operation
    lastErr,          \* the error the environment produced last, per context
    iter,             \* per poller: what its current iteration has done
    decided           \* per poller: the pair its decision step compared

vars == <<coreSequence, historySequence, coreLatest, histLatest, outdated,
          tickC, stopped, pc, is, op, rr, n, page, idx, flushAt, ret,
          pre, calls, qcount, allSum, okSum, lastEvent, lastErr,
          iter, decided>>

sysVars == <<coreSequence, historySequence>>
storeVars == <<coreLatest, histLatest, outdated>>
timerVars == <<tickC, stopped>>
sweepVars == <<n, page, idx, flushAt>>
histVars == <<pre, calls, qcount, allSum, okSum>>
obsVars == <<iter, decided>>

\* ------------------------------------------------------------ pure helpers
Max(a, b) == IF a >= b THEN a ELSE b

\* x + 1 on an int32 as Go computes it (wraps around at the top)
Inc32(x) == IF x = 2147483647 THEN (-2147483647) - 1 ELSE x + 1

SetMin(S) == CHOOSE x \in S : \A y \in S : x <= y

RECURSIVE FirstK(_, _)
\* the k smallest elements of S in ascending order
FirstK(S, k) ==
    IF k = 0 \/ S = {} THEN <<>>
    ELSE <<SetMin(S)>> \o FirstK(S \ {SetMin(S)}, k - 1)

NoSession == [from |-> 0, to |-> 0, clear |-> FALSE]

SessionLen(s) == IF s.to >= s.from THEN s.to - s.from + 1 ELSE 0

SessionRange(s) == {x \in 1..MaxSeq : s.from <= x /\ x <= s.to}

\* ------------------------------------------------- the session (environment)
\* Outcomes of session.Run() for session s: it succeeds having ingested every
\* ledger of [from, to], or fails with an error after some of them.
RunOutcomes(s) ==
    {[err |-> Nil, ingested |-> SessionLen(s)]}
    \cup [err : ErrVals, ingested : 0..Max(SessionLen(s) - 1, 0)]

\* the history store after session s ran with outcome o (a failed run is
\* rolled back)
HistAfter(s, o) ==
    IF o.err = Nil /\ SessionLen(s) > 0 THEN Max(histLatest, s.to)
    ELSE histLatest

OutdatedAfter(s, o) ==
    IF o.err = Nil THEN outdated \ SessionRange(s) ELSE outdated

\* ------------------------------------------------------ code: pure pieces
\* ReingestRange: session.NewSession(...) and is.ClearExisting = true
SessionOfRange(core, hist, start, end) ==
    [from |-> Inc32(hist), to |-> core, clear |-> TRUE]

\* ReingestRange: return is.Ingested, err
ReingestRangeRet(ingested, err) == [n |-> ingested, err |-> err]

\* ReingestAll: the arguments of its ReingestRange call
ReingestAllArgs(core) == [start |-> 1, end |-> core]

\* ReingestAll: return 0, err
ReingestAllFail(err) == [n |-> 0, err |-> err]

\* ReingestSingle passing a range one ledger too long
ReingestSingleArgsTooLong(sequence) == [start |-> sequence, end |-> sequence + 1]

\* ReingestSingle: the arguments of its ReingestRange call
ReingestSingleArgs(sequence) == [start |-> sequence, end |-> sequence]

\* ReingestSingle: _, err := ...; return err
ReingestSingleRet(ingested, err) == [err |-> err]

\* runOnce starting the session at historySequence instead of the ledger
\* after it
SessionOfCatchUpFromHist(core, hist) ==
    [from |-> hist, to |-> core, clear |-> FALSE]

\* runOnce: session.NewSession(i.historySequence+1, i.coreSequence, ...)
SessionOfCatchUp(core, hist) ==
    [from |-> Inc32(hist), to |-> core, clear |-> FALSE]

\* runOnce comparing with > instead of >=
NothingToDoStrict(core, hist) == hist > core

\* runOnce: if i.historySequence >= i.coreSequence { return }
NothingToDo(core, hist) == hist >= core

\* runOnce without the check of is.Ingested
NoProgressIgnored(ingested) == FALSE

\* runOnce: after a successful run, if is.Ingested == 0 { return }
NoProgress(ingested) == ingested = 0

\* flush adding the count before looking at the error
FlushNCountsFailed(total, ingested, ferr) == total + ingested

\* flush: n after the ReingestRange call returned (ingested, ferr)
FlushN(total, ingested, ferr) ==
    IF ferr # Nil THEN total ELSE total + ingested

\* flush / batching loop: does the sweep return after this flush?
FlushAborts(ferr) == ferr # Nil

RECURSIVE ScanMergesGaps(_, _, _, _)
\* the batching loop extending the run on seq >= end+1 instead of seq == end+1
ScanMergesGaps(pg, i, start, end) ==
    IF i > Len(pg) THEN [idx |-> i, start |-> start, end |-> end, at |-> "final"]
    ELSE IF start = 0 THEN ScanMergesGaps(pg, i + 1, pg[i], pg[i])
    ELSE IF pg[i] >= Inc32(end) THEN ScanMergesGaps(pg, i + 1, start, pg[i])
    ELSE [idx |-> i, start |-> start, end |-> end, at |-> "mid"]

RECURSIVE Scan(_, _, _, _)
\* The batching loop from element i with the run (start, end) open
\* (start = 0: none), up to the next call of flush(): "mid" is the call
\* inside the loop, made when pg[idx] does not extend the run, "final" the
\* one after the loop.
Scan(pg, i, start, end) ==
    IF i > Len(pg) THEN [idx |-> i, start |-> start, end |-> end, at |-> "final"]
    ELSE IF start = 0 THEN Scan(pg, i + 1, pg[i], pg[i])
    ELSE IF pg[i] = Inc32(end) THEN Scan(pg, i + 1, start, pg[i])
    ELSE [idx |-> i, start |-> start, end |-> end, at |-> "mid"]

\* the batching loop without start = seq; end = seq after the flush
ScanResumeDropsSeq(pg, i) == Scan(pg, i + 1, 0, 0)

\* batching loop after the flush inside the loop succeeded:
\* start = seq; end = seq, and on to the next element
ScanResume(pg, i) == Scan(pg, i + 1, pg[i], pg[i])

\* the sweep returning 0 instead of the accumulated n
SweepRetZero(total, err) == [n |-> 0, err |-> err]

\* the sweep's result when the query returned nothing / failed
SweepRet(total, err) == [n |-> total, err |-> err]

\* ---------------------------------------------------------------- Init
Ledgers == 1..MaxSeq

\* the record of an iteration that has done nothing yet
NoIteration ==
    [sessions |-> 0, reports |-> 0, clean |-> TRUE, lag |-> FALSE, prev |-> FALSE]

NoPair == [core |-> 0, hist |-> 0]

Init ==
    /\ coreSequence = 0
    /\ historySequence = 0
    /\ coreLatest \in 0..MaxSeq
    /\ histLatest \in 0..coreLatest
    /\ outdated \in SUBSET (1..histLatest)
    /\ tickC = 0
    /\ stopped = FALSE
    /\ pc = [p \in Procs |-> IF p \in Pollers THEN "off" ELSE "idle"]
    /\ is = [p \in Procs |-> NoSession]
    /\ op = [name |-> "none", start |-> 0, end |-> 0]
    /\ rr = [start |-> 0, end |-> 0]
    /\ n = 0
    /\ page = <<>>
    /\ idx = 0
    /\ flushAt = "none"
    /\ ret = [n |-> 0, err |-> Nil]
    /\ pre = [core |-> 0, hist |-> 0]
    /\ calls = <<>>
    /\ qcount = 0
    /\ allSum = 0
    /\ okSum = 0
    /\ lastEvent = [p \in Procs |-> "none"]
    /\ lastErr = [p \in Procs |-> Nil]
    /\ iter = [p \in Pollers |-> NoIteration]
    /\ decided = [p \in Pollers |-> NoPair]

\* ------------------------------------------------- observation bookkeeping
\* the record of an iteration that is not a clean one: it met a failure,
\* or the source store or another context acted while it ran
Dirty(r) == [NoIteration EXCEPT !.clean = FALSE, !.reports = r.reports]

InIteration(q) == pc[q] \notin {"off", "wait"}

\* iter after the iterations of the pollers in ps were disturbed
Disturbed(ps) ==
    [q \in Pollers |-> IF q \in ps /\ InIteration(q) THEN Dirty(iter[q]) ELSE iter[q]]

\* the pollers other than p
Others(p) == Pollers \ {p}

\* ------------------------------------------------------- environment
\* the source store closes one more ledger
CoreAdvance ==
    /\ coreLatest < MaxSeq
    /\ coreLatest' = coreLatest + 1
    /\ iter' = Disturbed(Pollers)
    /\ UNCHANGED <<sysVars, histLatest, outdated, timerVars, pc, is, op, rr,
                   sweepVars, ret, histVars, lastEvent, lastErr, decided>>

\* ------------------------------------------------- updateLedgerState
\* where updateLedgerState returns to when it succeeds
AfterRefresh(p) == IF p \in Pollers THEN "decide" ELSE "ra_call"

\* the caller not looking at the error of updateLedgerState
AfterRefreshFailIgnored(p) == AfterRefresh(p)

\* where the caller goes when updateLedgerState fails
AfterRefreshFail(p) == IF p \in Pollers THEN "wait" ELSE "done"

\* cq.LatestLedger(&i.coreSequence) and the err check after it
UpdateCore(p) ==
    /\ pc[p] = "uls_core"
    /\ \/ /\ coreSequence' = coreLatest
          /\ pc' = [pc EXCEPT ![p] = "uls_hist"]
          /\ lastEvent' = [lastEvent EXCEPT ![p] = "core_ok"]
          /\ iter' = Disturbed(Others(p))
          /\ UNCHANGED <<lastErr, ret>>
       \/ \E e \in ErrVals :
             /\ UNCHANGED coreSequence
             /\ iter' = Disturbed({p})
             /\ pc' = [pc EXCEPT ![p] = AfterRefreshFail(p)]
             /\ lastEvent' = [lastEvent EXCEPT ![p] = "refresh_fail"]
             /\ lastErr' = [lastErr EXCEPT ![p] = e]
             /\ ret' = IF p = "operator" THEN ReingestAllFail(e) ELSE ret
    /\ UNCHANGED <<historySequence, storeVars, timerVars, is, op, rr,
                   sweepVars, histVars, decided>>

\* hq.LatestLedger(&i.historySequence), the err check and return nil
UpdateHistory(p) ==
    /\ pc[p] = "uls_hist"
    /\ \/ /\ historySequence' = histLatest
          /\ pc' = [pc EXCEPT ![p] = AfterRefresh(p)]
          /\ lastEvent' = [lastEvent EXCEPT ![p] = "refresh_ok"]
          /\ iter' = Disturbed(Others(p))
          /\ UNCHANGED <<lastErr, ret>>
       \/ \E e \in ErrVals :
             /\ UNCHANGED historySequence
             /\ iter' = Disturbed({p})
             /\ pc' = [pc EXCEPT ![p] = AfterRefreshFail(p)]
             /\ lastEvent' = [lastEvent EXCEPT ![p] = "refresh_fail"]
             /\ lastErr' = [lastErr EXCEPT ![p] = e]
             /\ ret' = IF p = "operator" THEN ReingestAllFail(e) ELSE ret
    /\ UNCHANGED <<coreSequence, storeVars, timerVars, is, op, rr,
                   sweepVars, histVars, decided>>

\* ---------------------------------------------------- operator entry points
OperatorFree == pc["operator"] \in {"idle", "done"}

\* bookkeeping common to the start of every operator call
BeginCall(name, start, end, at) ==
    /\ OperatorFree
    /\ op' = [name |-> name, start |-> start, end |-> end]
    /\ pc' = [pc EXCEPT !["operator"] = at]
    /\ pre' = [core |-> coreSequence, hist |-> historySequence]
    /\ calls' = <<>>
    /\ qcount' = 0
    /\ allSum' = 0
    /\ okSum' = 0
    /\ n' = 0
    /\ page' = <<>>
    /\ idx' = 0
    /\ flushAt' = "none"
    /\ lastEvent' = [lastEvent EXCEPT !["operator"] = "none"]
    /\ lastErr' = [lastErr EXCEPT !["operator"] = Nil]
    /\ UNCHANGED <<sysVars, storeVars, timerVars, is, ret, obsVars>>

\* ReingestAll is called: it starts with updateLedgerState
ReingestAll ==
    /\ BeginCall("ReingestAll", 0, 0, "uls_core")
    /\ UNCHANGED rr

\* ReingestAll after the refresh: return i.ReingestRange(1, i.coreSequence)
ReingestAllRange ==
    /\ pc["operator"] = "ra_call"
    /\ rr' = ReingestAllArgs(coreSequence)
    /\ pc' = [pc EXCEPT !["operator"] = "rr_new"]
    /\ UNCHANGED <<sysVars, storeVars, timerVars, is, op, sweepVars, ret,
                   histVars, lastEvent, lastErr, obsVars>>

\* ReingestRange(start, end) is called by the operator
ReingestRange ==
    \E start \in Ledgers, end \in Ledgers :
        /\ start <= end
        /\ BeginCall("ReingestRange", start, end, "rr_new")
        /\ rr' = [start |-> start, end |-> end]

\* ReingestSingle(sequence) is called by the operator
ReingestSingle ==
    \E sequence \in Ledgers :
        /\ BeginCall("ReingestSingle", sequence, sequence, "rr_new")
        /\ rr' = ReingestSingleArgs(sequence)

\* ReingestOutdated is called by the operator
ReingestOutdated ==
    /\ BeginCall("ReingestOutdated", 0, 0, "ro_query")
    /\ UNCHANGED rr

\* ReingestRange: the session is constructed from the System fields
RangeNewSession ==
    /\ pc["operator"] = "rr_new"
    /\ is' = [is EXCEPT !["operator"] =
                 SessionOfRange(coreSequence, historySequence, rr.start, rr.end)]
    /\ pc' = [pc EXCEPT !["operator"] = "rr_run"]
    /\ UNCHANGED <<sysVars, storeVars, timerVars, op, rr, sweepVars, ret,
                   histVars, lastEvent, lastErr, obsVars>>

\* the entry of the session log for session s run with outcome o
CallEntry(s, o) ==
    [argStart |-> rr.start, argEnd |-> rr.end, sess |-> s,
     ingested |-> o.ingested, err |-> o.err]

\* ReingestRange: is.Run() and the return, followed by what the caller does
\* with the result up to its next blocking call
RangeRun ==
    /\ pc["operator"] = "rr_run"
    /\ \E o \in RunOutcomes(is["operator"]) :
        LET s == is["operator"]
            r == ReingestRangeRet(o.ingested, o.err)
        IN  /\ histLatest' = HistAfter(s, o)
            /\ outdated' = OutdatedAfter(s, o)
            /\ calls' = Append(calls, CallEntry(s, o))
            /\ allSum' = allSum + o.ingested
            /\ okSum' = IF o.err = Nil THEN okSum + o.ingested ELSE okSum
            /\ lastEvent' = [lastEvent EXCEPT !["operator"] =
                                IF o.err = Nil THEN "session_ok" ELSE "session_err"]
            /\ lastErr' = [lastErr EXCEPT !["operator"] =
                                IF o.err = Nil THEN @ ELSE o.err]
            /\ CASE op.name = "ReingestSingle" ->
                     /\ ret' = ReingestSingleRet(r.n, r.err)
                     /\ pc' = [pc EXCEPT !["operator"] = "done"]
                     /\ UNCHANGED sweepVars
                 [] op.name = "ReingestOutdated" ->
                     \* flush() returned into ReingestOutdated
                     /\ n' = FlushN(n, r.n, r.err)
                     /\ IF FlushAborts(r.err)
                        THEN /\ ret' = SweepRet(n', r.err)
                             /\ pc' = [pc EXCEPT !["operator"] = "done"]
                             /\ UNCHANGED <<rr, page, idx, flushAt>>
                        ELSE IF flushAt = "mid"
                        THEN LET nx == ScanResume(page, idx)
                             IN  /\ rr' = [start |-> nx.start, end |-> nx.end]
                                 /\ idx' = nx.idx
                                 /\ flushAt' = nx.at
                                 /\ pc' = [pc EXCEPT !["operator"] = "rr_new"]
                                 /\ UNCHANGED <<ret, page>>
                        ELSE /\ pc' = [pc EXCEPT !["operator"] = "ro_query"]
                             /\ UNCHANGED <<ret, rr, page, idx, flushAt>>
                 [] OTHER ->
                     /\ ret' = r
                     /\ pc' = [pc EXCEPT !["operator"] = "done"]
                     /\ UNCHANGED sweepVars
            /\ IF op.name = "ReingestOutdated" THEN TRUE ELSE UNCHANGED rr
    /\ iter' = Disturbed(Pollers)
    /\ UNCHANGED <<sysVars, coreLatest, timerVars, is, op, pre, qcount, decided>>

\* ReingestOutdated: q.OldestOutdatedLedgers(&outdated, CurrentVersion), the
\* two early returns, and the batching loop up to its first flush()
OutdatedQueryCounted(k) ==
    /\ pc["operator"] = "ro_query"
    /\ qcount' = k
    /\ calls' = <<>>
    /\ \/ \E e \in ErrVals :
            /\ ret' = SweepRet(n, e)
            /\ pc' = [pc EXCEPT !["operator"] = "done"]
            /\ lastEvent' = [lastEvent EXCEPT !["operator"] = "query_fail"]
            /\ lastErr' = [lastErr EXCEPT !["operator"] = e]
            /\ UNCHANGED <<rr, page, idx, flushAt>>
       \/ LET got == FirstK(outdated, PageSize)
          IN  /\ page' = got
              /\ UNCHANGED lastErr
              /\ IF Len(got) = 0
                 THEN /\ ret' = SweepRet(n, Nil)
                      /\ pc' = [pc EXCEPT !["operator"] = "done"]
                      /\ lastEvent' = [lastEvent EXCEPT !["operator"] = "query_empty"]
                      /\ UNCHANGED <<rr, idx, flushAt>>
                 ELSE LET nx == Scan(got, 1, 0, 0)
                      IN  /\ rr' = [start |-> nx.start, end |-> nx.end]
                          /\ idx' = nx.idx
                          /\ flushAt' = nx.at
                          /\ pc' = [pc EXCEPT !["operator"] = "rr_new"]
                          /\ lastEvent' = [lastEvent EXCEPT !["operator"] = "query_page"]
                          /\ UNCHANGED ret
    /\ UNCHANGED <<sysVars, storeVars, timerVars, is, op, n, pre, allSum, okSum,
                   obsVars>>

\* (the sweep is followed for MaxQueries queries)
OutdatedQuery ==
    /\ qcount < MaxQueries
    /\ OutdatedQueryCounted(qcount + 1)

\* the sweep with an environment that does not fail: the query succeeds
\* (queries beyond MaxQueries are not counted any more)
OutdatedQueryOK ==
    /\ OutdatedQueryCounted(IF qcount < MaxQueries THEN qcount + 1 ELSE qcount)
    /\ lastEvent'["operator"] # "query_fail"

\* the sweep with an environment that does not fail: the session succeeds
RangeRunOK ==
    /\ RangeRun
    /\ lastEvent'["operator"] = "session_ok"

\* ------------------------------------------------------------- the poller
\* a goroutine running System.run is launched and blocks on i.tick.C
Launch(p) ==
    /\ pc[p] = "off"
    /\ pc' = [pc EXCEPT ![p] = "wait"]
    /\ UNCHANGED <<sysVars, storeVars, timerVars, is, op, rr, sweepVars, ret,
                   histVars, lastEvent, lastErr, obsVars>>

\* Start: go i.run()
Start == Launch("poller")

\* Start called once more: go i.run() launches a second goroutine
StartAgain == pc["poller"] # "off" /\ Launch("poller2")

\* the ticker fires: the tick is buffered unless one is waiting already
Tick ==
    /\ ~stopped
    /\ tickC = 0
    /\ tickC' = 1
    /\ UNCHANGED <<sysVars, storeVars, stopped, pc, is, op, rr, sweepVars, ret,
                   histVars, lastEvent, lastErr, obsVars>>

\* Close: i.tick.Stop()
Close ==
    /\ stopped' = TRUE
    /\ UNCHANGED <<sysVars, storeVars, tickC, pc, is, op, rr, sweepVars, ret,
                   histVars, lastEvent, lastErr, obsVars>>

\* the record of the iteration that goroutine p begins now
NewIteration(p) ==
    [NoIteration EXCEPT
        !.lag = histLatest < coreLatest,
        !.prev = /\ iter[p].clean
                 /\ iter[p].sessions = 1
                 /\ histLatest = coreLatest]

\* run: goroutine p receives a tick from i.tick.C and runOnce begins
RunTickOf(p) ==
    /\ pc[p] = "wait"
    /\ tickC = 1
    /\ tickC' = 0
    /\ pc' = [pc EXCEPT ![p] = "uls_core"]
    /\ lastEvent' = [lastEvent EXCEPT ![p] = "none"]
    /\ lastErr' = [lastErr EXCEPT ![p] = Nil]
    /\ iter' = [iter EXCEPT ![p] = NewIteration(p)]
    /\ UNCHANGED <<sysVars, storeVars, stopped, is, op, rr, sweepVars, ret,
                   histVars, decided>>

RunTick == \E p \in Pollers : RunTickOf(p)

\* runOnce step 2: if i.historySequence >= i.coreSequence { return }
DecideOf(p) ==
    /\ pc[p] = "decide"
    /\ pc' = [pc EXCEPT ![p] =
                 IF NothingToDo(coreSequence, historySequence) THEN "wait" ELSE "new"]
    /\ decided' = [decided EXCEPT ![p] =
                      IF NothingToDo(coreSequence, historySequence) THEN NoPair
                      ELSE [core |-> coreSequence, hist |-> historySequence]]
    /\ UNCHANGED <<sysVars, storeVars, timerVars, is, op, rr, sweepVars, ret,
                   histVars, lastEvent, lastErr, iter>>

Decide == \E p \in Pollers : DecideOf(p)

\* runOnce: session.NewSession(i.historySequence+1, i.coreSequence, ...)
CatchUpNewSessionOf(p) ==
    /\ pc[p] = "new"
    /\ is' = [is EXCEPT ![p] = SessionOfCatchUp(coreSequence, historySequence)]
    /\ pc' = [pc EXCEPT ![p] = "run"]
    /\ decided' = [decided EXCEPT ![p] = NoPair]
    /\ UNCHANGED <<sysVars, storeVars, timerVars, op, rr, sweepVars, ret,
                   histVars, lastEvent, lastErr, iter>>

CatchUpNewSession == \E p \in Pollers : CatchUpNewSessionOf(p)

\* runOnce going back to step 1 after a failed run
AfterRunRetries(ingested, err) ==
    IF err = Nil /\ NoProgress(ingested) THEN "wait" ELSE "uls_core"

\* runOnce after is.Run() returned (ingested, err): log and return on an
\* error, return when nothing was ingested, otherwise loop to step 1
AfterRun(ingested, err) ==
    IF err # Nil THEN "wait"
    ELSE IF NoProgress(ingested) THEN "wait"
    ELSE "uls_core"

\* runOnce: is.Run(), the error check and step 3
CatchUpRunOf(p) ==
    /\ pc[p] = "run"
    /\ \E o \in RunOutcomes(is[p]) :
        LET s == is[p]
        IN  /\ histLatest' = HistAfter(s, o)
            /\ outdated' = OutdatedAfter(s, o)
            /\ lastEvent' = [lastEvent EXCEPT ![p] =
                                IF o.err # Nil THEN "session_err"
                                ELSE IF o.ingested = 0 THEN "session_ok_zero"
                                ELSE "session_ok"]
            /\ lastErr' = [lastErr EXCEPT ![p] =
                                IF o.err = Nil THEN @ ELSE o.err]
            /\ pc' = [pc EXCEPT ![p] = AfterRun(o.ingested, o.err)]
            /\ iter' = [q \in Pollers |->
                           IF q # p THEN Disturbed(Others(p))[q]
                           ELSE IF o.err # Nil \/ ~iter[p].clean THEN Dirty(iter[p])
                           ELSE [iter[p] EXCEPT !.sessions = @ + 1]]
    /\ UNCHANGED <<sysVars, coreLatest, timerVars, is, op, rr, sweepVars, ret,
                   histVars, decided>>

CatchUpRun == \E p \in Pollers : CatchUpRunOf(p)

\* the panic not recovered: the goroutine of run is gone
AfterRecoverLoopDies == "off"

\* where runOnce is after its deferred function recovered a panic: it
\* returns into the loop of run
AfterRecover == "wait"

\* a query or the session panics inside runOnce: the deferred function
\* recovers, logs, calls errors.ReportToSentry once, and runOnce returns
PanicOf(p) ==
    /\ pc[p] \in {"uls_core", "uls_hist", "run"}
    /\ pc' = [pc EXCEPT ![p] = AfterRecover]
    /\ lastEvent' = [lastEvent EXCEPT ![p] = "panic"]
    /\ iter' = [iter EXCEPT ![p] = Dirty([iter[p] EXCEPT !.reports = @ + 1])]
    /\ decided' = [decided EXCEPT ![p] = NoPair]
    /\ UNCHANGED <<sysVars, storeVars, timerVars, is, op, rr, sweepVars, ret,
                   histVars, lastErr>>

Panic == \E p \in Pollers : PanicOf(p)

\* ------------------------------------------------------- specifications
Refresh == \E p \in Procs : UpdateCore(p) \/ UpdateHistory(p)

\* the operator's entry points alone, the poller never started
Next ==
    \/ CoreAdvance
    \/ Refresh
    \/ ReingestAll
    \/ ReingestAllRange
    \/ ReingestRange
    \/ ReingestSingle
    \/ ReingestOutdated
    \/ RangeNewSession
    \/ RangeRun
    \/ OutdatedQuery

Spec == Init /\ [][Next]_vars

\* the poller running, with ReingestAll called from a second context
\* (the stores start close to their bound: the source store one ledger short
\* of it, the history store level with the source store or one behind)
InitSys ==
    /\ Init
    /\ coreLatest = MaxSeq - 1
    /\ histLatest >= coreLatest - 1
    /\ outdated = {}

NextSys ==
    \/ CoreAdvance
    \/ Refresh
    \/ ReingestAll
    \/ ReingestAllRange
    \/ RangeNewSession
    \/ RangeRun
    \/ Start
    \/ Tick
    \/ Close
    \/ RunTick
    \/ Decide
    \/ CatchUpNewSession
    \/ CatchUpRun

SpecSys == InitSys /\ [][NextSys]_vars

\* the poller running alone: no operator call
NextPoller ==
    \/ CoreAdvance
    \/ Refresh
    \/ Start
    \/ Tick
    \/ Close
    \/ RunTick
    \/ Decide
    \/ CatchUpNewSession
    \/ CatchUpRun
    \/ Panic

SpecPoller == Init /\ [][NextPoller]_vars

\* ReingestOutdated alone on a new System, every query and session
\* succeeding, and the call running on as long as it has a step to take
NextSweep ==
    \/ ReingestOutdated
    \/ RangeNewSession
    \/ RangeRunOK
    \/ OutdatedQueryOK

SpecSweepFair == Init /\ [][NextSweep]_vars /\ WF_vars(NextSweep)

\* the poller with Start called up to twice
NextTwo ==
    \/ NextPoller
    \/ StartAgain

SpecTwo == InitSys /\ [][NextTwo]_vars

\* ------------------------------------------------------------ observations
Operator == "operator"

Returned(name) == pc[Operator] = "done" /\ op.name = name

InSweep == op.name = "ReingestOutdated"

\* the ranges the batching loop has handed to the driver for the current
\* page, in the order of the calls (the call in progress included)
Handed ==
    [k \in 1..Len(calls) |-> [start |-> calls[k].argStart, end |-> calls[k].argEnd]]
    \o (IF pc[Operator] \in {"rr_new", "rr_run"} THEN <<rr>> ELSE <<>>)

PageSet == {page[k] : k \in 1..Len(page)}

Covered(h) == {x \in Ledgers : \E k \in 1..Len(h) : h[k].start <= x /\ x <= h[k].end}

\* every range of the current page has been handed to the driver
PageHanded ==
    /\ InSweep
    /\ \/ pc[Operator] = "ro_query" /\ calls # <<>>
       \/ pc[Operator] \in {"rr_new", "rr_run"} /\ flushAt = "final"

\* every range of the current page has been run by the driver
PageDone == InSweep /\ pc[Operator] = "ro_query" /\ calls # <<>>

\* the index of the handed range that holds ledger x
RangeOf(x) == CHOOSE k \in 1..Len(Handed) : Handed[k].start <= x /\ x <= Handed[k].end

\* ------------------------------------------------------------------ claims

\* C1: ReingestRange(start, end) with start <= end runs exactly one session,
\* with fromSeq = start, toSeq = end and the overwrite flag set, and returns
\* that session's ingested count and error unchanged.
C1_RangeRunsGivenRange ==
    Returned("ReingestRange") =>
        /\ Len(calls) = 1
        /\ calls[1].sess = [from |-> op.start, to |-> op.end, clear |-> TRUE]
        /\ ret = [n |-> calls[1].ingested, err |-> calls[1].err]

\* C2: when either latest-sequence query of the refresh fails, the refresh
\* returns an error and coreSequence and historySequence both hold the values
\* they had before the call.
C2_FailedRefreshKeepsState ==
    (Returned("ReingestAll") /\ lastEvent[Operator] = "refresh_fail") =>
        /\ ret.err # Nil
        /\ coreSequence = pre.core
        /\ historySequence = pre.hist

\* C3: the ranges the batching loop hands to the driver for one page satisfy
\* start <= end, are pairwise disjoint and in ascending order of start, hold
\* only values of the page, and once the whole page is handed out they cover
\* exactly the values of the page.
C3_BatchedRangesPartitionPage ==
    InSweep =>
        /\ \A k \in 1..Len(Handed) : 1 <= Handed[k].start /\ Handed[k].start <= Handed[k].end
        /\ \A k \in 1..Len(Handed) : \A l \in 1..Len(Handed) :
               k < l => Handed[k].end < Handed[l].start
        /\ Covered(Handed) \subseteq PageSet
        /\ PageHanded => Covered(Handed) = PageSet

\* C3 witness: a page of three separate ledgers has been run as three ranges
C3_Witness == PageDone /\ Len(calls) = 3 /\ Len(page) = 3

\* C4 as stated: any two values of the page that differ by more than 1 are in
\* different ranges, and adjacent values that differ by exactly 1 are in the
\* same range.
C4_AnyTwoApartAreSplit ==
    PageHanded =>
        /\ \A i \in 1..Len(page) : \A j \in 1..Len(page) :
               page[j] - page[i] > 1 => RangeOf(page[i]) # RangeOf(page[j])
        /\ \A i \in 1..(Len(page) - 1) :
               page[i + 1] - page[i] = 1 => RangeOf(page[i]) = RangeOf(page[i + 1])

\* C4 amended: one range per maximal run of consecutive values: two ADJACENT
\* values of the page are in the same range exactly when they differ by 1
\* (values further apart share a range only through a chain of such steps).
C4_OneRangePerMaximalRun ==
    PageHanded =>
        /\ \A i \in 1..(Len(page) - 1) :
               (page[i + 1] - page[i] = 1) <=> (RangeOf(page[i]) = RangeOf(page[i + 1]))
        /\ Len(Handed) = 1 + Cardinality({i \in 1..(Len(page) - 1) : page[i + 1] - page[i] # 1})

\* C4 witness: a page with a run of two and a separate ledger, fully handed out
C4_Witness ==
    /\ PageHanded
    /\ Len(page) = 3
    /\ Len(Handed) = 2
    /\ page[2] - page[1] = 1

\* C5: when the driver returns an error for a range, the sweep returns at once
\* with that error: the failing call is the last one, every call before it
\* succeeded, and the total is the sum of the counts of the calls that
\* succeeded.
C5_SweepStopsAtFirstError ==
    (InSweep /\ lastEvent[Operator] = "session_err") =>
        /\ pc[Operator] = "done"
        /\ ret.err = lastErr[Operator]
        /\ ret.n = okSum
        /\ Len(calls) >= 1
        /\ calls[Len(calls)].err = ret.err
        /\ \A k \in 1..(Len(calls) - 1) : calls[k].err = Nil

\* C5 witness: the sweep returned on an error of the second range of a page
\* that had a third one, after a first range that ingested something, the
\* failing session itself reporting a count
C5_Witness ==
    /\ Returned("ReingestOutdated")
    /\ lastEvent[Operator] = "session_err"
    /\ flushAt = "mid"
    /\ Len(calls) = 2
    /\ okSum > 0
    /\ calls[2].ingested > 0

\* C6: when an outdated-ledger query returns nothing the sweep returns no
\* error and the sum of the counts of every driver call of the sweep, with no
\* driver call after that query; when the query fails the sweep returns that
\* error, again with no driver call after it.
C6_SweepEndsOnEmptyOrFailedQuery ==
    /\ (InSweep /\ lastEvent[Operator] = "query_empty") =>
           /\ pc[Operator] = "done"
           /\ ret = [n |-> allSum, err |-> Nil]
           /\ calls = <<>>
    /\ (InSweep /\ lastEvent[Operator] = "query_fail") =>
           /\ pc[Operator] = "done"
           /\ ret.err = lastErr[Operator]
           /\ ret.err # Nil
           /\ calls = <<>>

\* C6 witness: the sweep returned on an empty second query after a first page
\* whose sessions ingested something
C6_Witness ==
    /\ Returned("ReingestOutdated")
    /\ lastEvent[Operator] = "query_empty"
    /\ qcount = 2
    /\ allSum > 0

\* C7: before the next query every batched range of the page has been run as
\* one session whose [fromSeq, toSeq] equals the range, so the sessions cover
\* exactly the ledgers of the page.
C7_SessionsCoverPage ==
    PageDone =>
        /\ \A k \in 1..Len(calls) :
               /\ calls[k].sess.from = calls[k].argStart
               /\ calls[k].sess.to = calls[k].argEnd
        /\ UNION {SessionRange(calls[k].sess) : k \in 1..Len(calls)} = PageSet

\* C8: ReingestAll, when its refresh succeeds, runs exactly one session with
\* fromSeq = 1, toSeq = the coreSequence just read and the overwrite flag set.
C8_ReingestAllFromOne ==
    (Returned("ReingestAll") /\ lastEvent[Operator] # "refresh_fail") =>
        /\ Len(calls) = 1
        /\ calls[1].sess = [from |-> 1, to |-> coreSequence, clear |-> TRUE]

\* C9: ReingestSingle(seq) passes the range (seq, seq) to ReingestRange, so
\* it runs the one session ReingestRange(seq, seq) constructs from the same
\* System fields, and it returns that session's error.
C9_SingleIsRangeOfOne ==
    Returned("ReingestSingle") =>
        /\ Len(calls) = 1
        /\ calls[1].argStart = op.start
        /\ calls[1].argEnd = op.start
        /\ calls[1].sess = SessionOfRange(pre.core, pre.hist, op.start, op.start)
        /\ ret.err = calls[1].err

\* C9 witness: ReingestSingle returned the error of its session, on a System
\* whose fields had been refreshed before
C9_Witness ==
    /\ Returned("ReingestSingle")
    /\ Len(calls) = 1
    /\ calls[1].err # Nil
    /\ pre.core > 0

\* C10: once a refresh has failed in a poller iteration or in ReingestAll, the
\* operation is over: the poller is back waiting for a tick, ReingestAll has
\* returned (0, error), and no session followed the failure.
C10_NoSessionAfterFailedRefresh ==
    /\ lastEvent["poller"] = "refresh_fail" => pc["poller"] = "wait"
    /\ lastEvent[Operator] = "refresh_fail" =>
           /\ pc[Operator] = "done"
           /\ ret = [n |-> 0, err |-> lastErr[Operator]]
           /\ calls = <<>>

\* C10 witness: a poller iteration and a ReingestAll have both ended on a
\* failed refresh
C10_Witness ==
    /\ lastEvent["poller"] = "refresh_fail"
    /\ lastEvent[Operator] = "refresh_fail"
    /\ op.name = "ReingestAll"

\* goroutine p has finished an iteration and waits for the next tick
IterationOver(p) == pc[p] = "wait" /\ lastEvent[p] # "none"

\* C11: an iteration in which every query and the session succeeded and the
\* source store did not advance, started with the history store behind the
\* source store, has run exactly one session and ends with the history store
\* level with coreSequence; the iteration right after it, the source store
\* still not having advanced, runs no session and goes back to waiting.
C11_CatchUpThenIdle ==
    \A p \in Pollers :
        (IterationOver(p) /\ iter[p].clean) =>
            /\ iter[p].lag => (iter[p].sessions = 1 /\ histLatest = coreSequence)
            /\ iter[p].prev => iter[p].sessions = 0

\* C11 witness: the iteration after a one-session catch-up is over, having
\* run no session
C11_Witness ==
    /\ IterationOver("poller")
    /\ iter["poller"].clean
    /\ iter["poller"].prev
    /\ iter["poller"].sessions = 0
    /\ histLatest = coreLatest
    /\ coreLatest > 0

\* C12: a panic inside a poller iteration is recovered at the end of runOnce
\* and reported to the crash-report sink exactly once (and nothing is
\* reported without a panic), the iteration is over, and the loop of run is
\* still there: with a tick in the channel the goroutine starts a new
\* iteration.
C12_PanicIsolatedToIteration ==
    \A p \in Pollers :
        /\ lastEvent[p] = "panic" =>
               /\ pc[p] = "wait"
               /\ iter[p].reports = 1
               /\ tickC = 1 => ENABLED RunTickOf(p)
        /\ lastEvent[p] # "panic" => iter[p].reports = 0

\* C12 witness: an iteration that had built a session was ended by a panic,
\* and the next tick is waiting in the channel
C12_Witness ==
    /\ lastEvent["poller"] = "panic"
    /\ is["poller"] # NoSession
    /\ iter["poller"].reports = 1
    /\ tickC = 1

\* goroutine p begins an iteration in this step
BeginsIteration(p) == pc[p] = "wait" /\ pc'[p] # "wait"

\* C13: once Close has returned no tick fires any more and no goroutine
\* begins a new iteration (one in progress goes on), and a further Close
\* changes nothing.
C13_NothingStartsAfterClose ==
    [][stopped =>
          /\ stopped'
          /\ tickC' <= tickC
          /\ \A p \in Pollers : ~BeginsIteration(p)]_vars

\* C14: whatever Start, Close and the ticker have done, at most one goroutine
\* is inside runOnce.
C14_OneIterationAtATime ==
    Cardinality({p \in Pollers : InIteration(p)}) <= 1

\* C15: with the poller alone, a session is constructed and run only right
\* after a successful refresh of the same iteration (no session in between)
\* that read historySequence < coreSequence; its bounds are historySequence+1
\* (the ledger after the history store's latest) and coreSequence (a ledger of
\* the source store), so fromSeq <= toSeq; after a refresh that read
\* historySequence >= coreSequence the iteration ends without a session.
C15_SessionFollowsRefresh ==
    \A p \in Pollers :
        /\ pc[p] \in {"new", "run"} =>
               /\ lastEvent[p] = "refresh_ok"
               /\ historySequence < coreSequence
        /\ pc[p] = "run" =>
               /\ is[p].from = historySequence + 1
               /\ is[p].to = coreSequence
               /\ is[p].from = histLatest + 1
               /\ is[p].to <= coreLatest
               /\ is[p].from <= is[p].to
        /\ (lastEvent[p] = "refresh_ok" /\ historySequence >= coreSequence) =>
               pc[p] \in {"decide", "wait"}

\* C15 witness: the poller is about to run a session of several ledgers that
\* does not start at ledger 1
C15_Witness ==
    /\ pc["poller"] = "run"
    /\ is["poller"].from > 1
    /\ is["poller"].from < is["poller"].to

\* C16: after a session of the poller that succeeded with a count of zero
\* the iteration is over (no refresh, no session follows); after one that
\* succeeded with a count above zero the poller is at the refresh of step 1.
C16_LoopOnlyOnProgress ==
    \A p \in Pollers :
        /\ lastEvent[p] = "session_ok_zero" => pc[p] = "wait"
        /\ lastEvent[p] = "session_ok" => pc[p] = "uls_core"

\* C16 witness: an iteration of the poller ended on a successful session that
\* ingested nothing
C16_Witness ==
    /\ lastEvent["poller"] = "session_ok_zero"
    /\ pc["poller"] = "wait"

\* C17: after a session of the poller failed the iteration is over, without
\* another session; the goroutine of run is still in its loop, and with a
\* tick in the channel it starts a new iteration.
C17_SessionErrorEndsIteration ==
    \A p \in Pollers :
        lastEvent[p] = "session_err" =>
            /\ pc[p] = "wait"
            /\ lastErr[p] # Nil
            /\ tickC = 1 => ENABLED RunTickOf(p)

\* C17 witness: an iteration ended on a failed session and the next tick is
\* waiting in the channel
C17_Witness ==
    /\ lastEvent["poller"] = "session_err"
    /\ lastErr["poller"] = "errB"
    /\ tickC = 1

\* context p constructs its session in this step
Constructs(p) == pc[p] \in {"new", "rr_new"} /\ pc'[p] \in {"run", "rr_run"}

\* context q has written coreSequence and not yet historySequence
HalfRefreshed(q) == pc[q] = "uls_hist"

\* C18: with an operator call running beside the poller, no context
\* constructs a session while another context's refresh is half-done, and the
\* session of the poller is built from the pair its decision step compared.
C18_SessionFromOneRefresh ==
    [][\A p \in Procs :
          Constructs(p) =>
              /\ \A q \in Procs \ {p} : ~HalfRefreshed(q)
              /\ p \in Pollers =>
                     is'[p] = SessionOfCatchUp(decided[p].core, decided[p].hist)]_vars

\* C19: a session of an operator call is constructed right after a refresh
\* made by the same call, or its bounds are the range the caller supplied:
\* they never come from System fields that this call has not refreshed.
C19_NoSessionFromUnrefreshedState ==
    pc[Operator] = "rr_run" =>
        \/ lastEvent[Operator] = "refresh_ok"
        \/ is[Operator].from = rr.start /\ is[Operator].to = rr.end

\* C20: ReingestOutdated returns only after an empty query result or an
\* error; and when every query and session succeeds and a successful session
\* brings the ledgers of its [fromSeq, toSeq] to the current version, a
\* sweep over the (finite) set of outdated ledgers eventually returns.
C20_SweepReturns ==
    /\ [](Returned("ReingestOutdated") =>
             lastEvent[Operator] \in {"query_empty", "query_fail", "session_err"})
    /\ (InSweep /\ pc[Operator] # "done") ~> (pc[Operator] = "done")
====
